---- MODULE Spec2Model ----
(***************************************************************************)
(* Model of p2v_transfer.py: one run of main() on the transfer OS, with    *)
(* the source mount point /source, the remote session and the target's     *)
(* /target mount point.  Every action is one call made by main() (or one   *)
(* remote command of PartitionTargetDisks); the exit status of each local  *)
(* or remote command is chosen by the environment within what the state    *)
(* of the mount points allows.                                             *)
(***************************************************************************)
EXTENDS Integers, Sequences, FiniteSets, TLC

VARIABLES
  pc,            \* position of main()
  uid,           \* os.getuid()
  client,        \* TRUE when main's `client` holds an SSHClient, FALSE for None
  pending,       \* exception travelling through the finally clause
  exitKind,      \* how the process ended
  printed,       \* messages printed by the run
  srcMounted,    \* a filesystem is mounted at SOURCE_MOUNT
  srcDir,        \* the directory SOURCE_MOUNT exists
  tgtMounted,    \* a filesystem is mounted at TARGET_MOUNT on the target
  tgtDir,        \* the directory TARGET_MOUNT exists on the target
  hasModulesDir, \* <root_dev>/lib/modules exists
  installed,     \* kernel releases with a directory under <root_dev>/lib/modules
  total_megs,    \* GetDiskSize result (-1 before sizing)
  swap_megs,     \* GetDiskSize result (-1 before sizing)
  swap_kb_sum,   \* sum of the kilobyte fields GetDiskSize parsed (-1 before sizing)
  swap_raw,      \* GetDiskSize's swap_megs before the cap (-1 before sizing)
  blockdev_out,  \* output of the blockdev command (sizing specification only)
  swap_out,      \* output of `swapon -s` (sizing specification only)
  kcheck,        \* what VerifyKernelMatches read and returned
  log,           \* calls made so far, in order
  failed,        \* calls that reported failure
  cleanups,      \* one record per CleanUpTarget call
  chains         \* one record per execution of the format/mount chain

vars == <<pc, uid, client, pending, exitKind, printed, srcMounted, srcDir,
          tgtMounted, tgtDir, hasModulesDir, installed, total_megs, swap_megs,
          swap_kb_sum, swap_raw, blockdev_out, swap_out, kcheck,
          log, failed, cleanups, chains>>

ctl == <<pc, pending, exitKind, printed>>
source == <<srcMounted, srcDir, hasModulesDir, installed, kcheck>>
target == <<tgtMounted, tgtDir, cleanups, chains>>
sizes == <<total_megs, swap_megs, swap_kb_sum, swap_raw, blockdev_out, swap_out>>

----------------------------------------------------------------------------
(* Bounds *)

MaxUid == 1
MaxSwapLines == 2
MaxRunSwapLines == 1
MaxTotalTens == 3

(* Program constants *)

MB == 1048576
KB == 1024

Releases == {"", "2.6.32-5-xen", "3.2.0-4-amd64"}

----------------------------------------------------------------------------
(* Control flow of main(): try / except P2VError / finally *)

\* an exception other than P2VError (or a SystemExit) leaves the inner try
\* unhandled and the finally clause runs with it pending
Propagate(exc, msg) ==
  /\ pending' = exc
  /\ pc' = "fin_unmount"
  /\ printed' = IF msg = "" THEN printed ELSE printed \cup {msg}
  /\ exitKind' = exitKind

\* sys.exit(1) called below main(): raises SystemExit through the try
SysExit(msg) == Propagate("SystemExit", msg)

\* except P2VError, e: print e; sys.exit(1)
ExceptP2VError(msg) == Propagate("SystemExit", msg)

Goto(next) ==
  /\ pc' = next
  /\ UNCHANGED <<pending, exitKind, printed>>

Record(call, ok) ==
  /\ log' = Append(log, call)
  /\ failed' = IF ok THEN failed ELSE failed \cup {call}

\* _RunCommandAndWait raises P2VError when the exit status is not 0
RunCommandAndWaitRaises(status) == status # 0

----------------------------------------------------------------------------
(* Pipeline steps *)

\* CheckPrivilege without the raise
CheckPrivilege_NoRaise ==
  /\ pc = "start"
  /\ Record("getuid", uid = 0)
  /\ Goto("key")
  /\ UNCHANGED <<uid, client, source, target, sizes>>

\* uid = os.getuid(); if uid != 0: raise P2VError
CheckPrivilege ==
  /\ pc = "start"
  /\ Record("getuid", uid = 0)
  /\ IF uid # 0 THEN ExceptP2VError("Must be run as root") ELSE Goto("key")
  /\ UNCHANGED <<uid, client, source, target, sizes>>

\* key = LoadSSHKey(keyfile): P2VError when missing, invalid or encrypted
LoadSSHKey ==
  /\ pc = "key"
  /\ \E ok \in BOOLEAN :
       /\ Record("LoadSSHKey", ok)
       /\ IF ok THEN Goto("connect")
                ELSE ExceptP2VError("Key file is missing or invalid")
  /\ UNCHANGED <<uid, client, source, target, sizes>>

\* client = EstablishConnection(user, host, key): client.connect raises
\* paramiko/socket exceptions, none of which is a P2VError
EstablishConnection ==
  /\ pc = "connect"
  /\ \E ok \in BOOLEAN :
       /\ Record("EstablishConnection", ok)
       /\ client' = ok
       /\ IF ok THEN Goto("mount") ELSE Propagate("Other", "")
  /\ UNCHANGED <<uid, source, target, sizes>>

\* mkdir SOURCE_MOUNT if absent; mount root_dev SOURCE_MOUNT; sys.exit(1) on
\* a nonzero status.  mount fails when root_dev is already mounted there.
MountSourceFilesystems ==
  /\ pc = "mount"
  /\ srcDir' = TRUE
  /\ \E errcode \in {0, 1} :
       /\ srcMounted => errcode # 0
       /\ Record("MountSourceFilesystems", errcode = 0)
       /\ IF errcode # 0
            THEN /\ SysExit("Error mounting")
                 /\ UNCHANGED srcMounted
            ELSE /\ Goto("kernel")
                 /\ srcMounted' = TRUE
  /\ UNCHANGED <<uid, client, hasModulesDir, installed, kcheck, target, sizes>>

\* os.path.exists(os.path.join(SOURCE_MOUNT, "lib", "modules", kernel)):
\* an empty kernel string names the modules directory itself
KernelPathExists(kernel) ==
  IF kernel = "" THEN hasModulesDir ELSE kernel \in installed

\* what "uname -r" can give: a failing command writes no release string
UnameOutcomes ==
  {[status |-> 0, kernel |-> k] : k \in Releases}
    \cup {[status |-> 1, kernel |-> ""]}

\* the value VerifyKernelMatches returns on an outcome of "uname -r":
\* stdout.read().strip() is looked up whatever the exit status, which the
\* function never reads
KernelCheckResult(u) == IF KernelPathExists(u.kernel) THEN "true" ELSE "false"

VerifyKernelMatches ==
  /\ pc = "kernel"
  /\ \E u \in UnameOutcomes :
       /\ kcheck' = [status |-> u.status, kernel |-> u.kernel,
                     result |-> KernelCheckResult(u)]
       /\ Record("VerifyKernelMatches", KernelCheckResult(u) = "true")
       /\ IF KernelCheckResult(u) = "true"
            THEN Goto("size")
            ELSE ExceptP2VError("Instance kernel not present on source OS")
  /\ UNCHANGED <<uid, client, srcMounted, srcDir, hasModulesDir, installed,
                 target, sizes>>

----------------------------------------------------------------------------
(* GetDiskSize *)

\* A line of the blockdev output: Blank, NotANumber, or the number it holds
Blank == -1
NotANumber == -2

Bytes == {t * 10 * MB + r : t \in 0..MaxTotalTens, r \in {0, MB - 1}}

BlockdevOutputs ==
  {<<>>, <<Blank>>, <<NotANumber>>}
    \cup {<<b>> : b \in Bytes} \cup {<<Blank, b>> : b \in Bytes}

\* A line of `swapon -s`: nf whitespace-separated fields (capped at 3), kb the
\* value of the third field when it is a number, NotANumber otherwise
SwapLine(nf, kb) == [nf |-> nf, kb |-> kb]

HeaderLine == SwapLine(3, NotANumber)

SwapDataLines ==
  {SwapLine(3, 512), SwapLine(3, 1536), SwapLine(3, 2048),
   SwapLine(3, NotANumber), SwapLine(0, NotANumber), SwapLine(2, NotANumber)}

SeqsUpTo(S, n) == UNION {[1..k -> S] : k \in 0..n}

\* an empty output, or the header line followed by up to n data lines
SwapReportsUpTo(n) ==
  {<<>>} \cup {<<HeaderLine>> \o d : d \in SeqsUpTo(SwapDataLines, n)}

\* the reports drawn in the sizing specification
SwapReports == SwapReportsUpTo(MaxSwapLines)

\* the reports drawn in a whole run of main()
RunSwapReports == SwapReportsUpTo(MaxRunSwapLines)

\* for line in stdout: if line.strip(): total_megs = int(line.strip()) / MB; break
\* result: [bound |-> total_megs was assigned, raises |-> int() raised, megs]
RECURSIVE ParseBlockdev(_)
ParseBlockdev(lines) ==
  IF lines = <<>> THEN [bound |-> FALSE, raises |-> FALSE, megs |-> 0]
  ELSE IF Head(lines) = Blank THEN ParseBlockdev(Tail(lines))
  ELSE IF Head(lines) = NotANumber
    THEN [bound |-> FALSE, raises |-> TRUE, megs |-> 0]
    ELSE [bound |-> TRUE, raises |-> FALSE, megs |-> Head(lines) \div MB]

\* swap_output.splitlines()[1:]
DataLines(report) == IF report = <<>> THEN <<>> ELSE Tail(report)

\* words[2] raises IndexError on a line with fewer than three fields;
\* int(words[2]) raises ValueError, which is caught, on a non-numeric field
RECURSIVE SwapRaises(_)
SwapRaises(lines) ==
  IF lines = <<>> THEN FALSE
  ELSE Head(lines).nf < 3 \/ SwapRaises(Tail(lines))

\* the kilobytes of all the lines that carry a number
RECURSIVE SwapKbSum(_)
SwapKbSum(lines) ==
  IF lines = <<>> THEN 0
  ELSE (IF Head(lines).nf >= 3 /\ Head(lines).kb # NotANumber
          THEN Head(lines).kb ELSE 0) + SwapKbSum(Tail(lines))

\* the swap total converted once, after the sum
SwapMegs_SumFirst(lines) == SwapKbSum(lines) \div KB

\* swap_megs += size_kb / 1024, line by line
RECURSIVE SwapMegs(_)
SwapMegs(lines) ==
  IF lines = <<>> THEN 0
  ELSE (IF Head(lines).nf >= 3 /\ Head(lines).kb # NotANumber
          THEN Head(lines).kb \div KB ELSE 0) + SwapMegs(Tail(lines))

\* the larger of the two
Min_Larger(a, b) == IF a < b THEN b ELSE a

Min(a, b) == IF a < b THEN a ELSE b

\* int(total_megs * 0.1): the double nearest 0.1 is above 0.1, so for the
\* sizes of a disk the product truncates to total_megs div 10
TenPercent(megs) == megs \div 10

\* [raises, total, swap]: what GetDiskSize does on the two command outputs
GetDiskSizeResult(blockdev, report) ==
  LET bd == ParseBlockdev(blockdev)
      data == DataLines(report)
  IN  [raises |-> bd.raises \/ SwapRaises(data) \/ ~bd.bound,
       total  |-> bd.megs,
       swap   |-> Min(SwapMegs(data), TenPercent(bd.megs)),
       raw    |-> SwapMegs(data),
       kbsum  |-> SwapKbSum(data)]

\* total_megs, swap_megs = GetDiskSize(client) on the two command outputs
GetDiskSizeOn(blockdev, report) ==
  LET r == GetDiskSizeResult(blockdev, report) IN
    /\ pc = "size"
    /\ Record("GetDiskSize", ~r.raises)
    /\ IF r.raises
         THEN /\ Propagate("Other", "")
              /\ UNCHANGED <<total_megs, swap_megs, swap_kb_sum, swap_raw>>
         ELSE /\ Goto("sfdisk")
              /\ total_megs' = r.total
              /\ swap_megs' = r.swap
              /\ swap_raw' = r.raw
              /\ swap_kb_sum' = r.kbsum
    /\ UNCHANGED <<uid, client, source, target, blockdev_out, swap_out>>

GetDiskSize ==
  \E blockdev \in BlockdevOutputs, report \in RunSwapReports :
    GetDiskSizeOn(blockdev, report)

----------------------------------------------------------------------------
(* The target: CleanUpTarget and PartitionTargetDisks *)

\* the cleanup command without its rmdir
CleanUpCommand_NoRmdir(mounted, dir, umountOk) ==
  [mounted |-> mounted /\ ~umountOk,
   dir     |-> dir,
   status  |-> IF mounted /\ umountOk THEN 0 ELSE 1]

\* "umount TARGET_MOUNT ; rmdir TARGET_MOUNT": umount succeeds only when
\* something is mounted (and may fail then too); rmdir succeeds only on an
\* existing directory that is not a mount point; the shell reports the
\* status of the last command
CleanUpCommand(mounted, dir, umountOk) ==
  LET stillMounted == mounted /\ ~umountOk
      removed == dir /\ ~stillMounted
  IN  [mounted |-> stillMounted,
       dir     |-> dir /\ ~removed,
       status  |-> IF removed THEN 0 ELSE 1]

\* CleanUpTarget(client) called in context ctx; r is the command's outcome
CleanUpTarget(ctx, r) ==
  /\ tgtMounted' = r.mounted
  /\ tgtDir' = r.dir
  /\ cleanups' = Append(cleanups, [ctx |-> ctx, preMounted |-> tgtMounted,
                                   preDir |-> tgtDir, status |-> r.status])
  /\ log' = Append(log, "CleanUpTarget")

ChainSteps == <<"mkfs.ext3", "mkswap", "mkdir", "mount">>

\* "mkfs.ext3 /dev/xvda1 && mkswap /dev/xvda2 && mkdir -p TARGET_MOUNT &&
\*  mount /dev/xvda1 TARGET_MOUNT": failAt is the first command that fails,
\* 0 when none does; the mount cannot succeed on a device already mounted
ChainFailPoints(mounted) == IF mounted THEN 1..4 ELSE 0..4

ChainCommand(mounted, dir, failAt) ==
  [mounted |-> mounted \/ failAt = 0,
   dir     |-> dir \/ failAt = 0 \/ failAt = 4,
   status  |-> IF failAt = 0 THEN 0 ELSE 1]

RunChain(failAt) ==
  LET r == ChainCommand(tgtMounted, tgtDir, failAt) IN
    /\ tgtMounted' = r.mounted
    /\ tgtDir' = r.dir
    /\ chains' = Append(chains, [failAt |-> failAt, status |-> r.status])
    /\ log' = Append(log, "chain")

\* the sfdisk command run inside the try, so that its failure is retried
PartitionSfdisk_InTry ==
  /\ pc = "sfdisk"
  /\ \E status \in {0, 1} :
       /\ log' = Append(log, "PartitionTargetDisks")
       /\ IF RunCommandAndWaitRaises(status)
            THEN /\ failed' = failed \cup {"sfdisk"}
                 /\ Goto("retry_cleanup")
            ELSE /\ failed' = failed
                 /\ Goto("chain1")
  /\ UNCHANGED <<uid, client, source, target, sizes>>

\* nonswap_megs = total_megs - swap_megs; _RunCommandAndWait(sfdisk_command)
PartitionSfdisk ==
  /\ pc = "sfdisk"
  /\ \E status \in {0, 1} :
       /\ log' = Append(log, "PartitionTargetDisks")
       /\ IF RunCommandAndWaitRaises(status)
            THEN /\ failed' = failed \cup {"sfdisk", "PartitionTargetDisks"}
                 /\ ExceptP2VError("Remote command returned nonzero exit status")
            ELSE /\ failed' = failed
                 /\ Goto("chain1")
  /\ UNCHANGED <<uid, client, source, target, sizes>>

\* try: _RunCommandAndWait(client, " && ".join(other_commands))
PartitionChain ==
  /\ pc = "chain1"
  /\ \E failAt \in ChainFailPoints(tgtMounted) :
       /\ RunChain(failAt)
       /\ IF RunCommandAndWaitRaises(ChainCommand(tgtMounted, tgtDir, failAt).status)
            THEN Goto("retry_cleanup")
            ELSE Goto("transfer")
  /\ UNCHANGED <<uid, client, source, sizes, failed, cleanups>>

\* the except branch without its second _RunCommandAndWait
PartitionRetryCleanUp_NoRetry ==
  /\ pc = "retry_cleanup"
  /\ \E umountOk \in BOOLEAN :
       LET r == CleanUpCommand(tgtMounted, tgtDir, umountOk) IN
         /\ CleanUpTarget("retry", r)
         /\ IF RunCommandAndWaitRaises(r.status)
              THEN /\ failed' = failed \cup {"PartitionTargetDisks"}
                   /\ ExceptP2VError("Remote command returned nonzero exit status")
              ELSE /\ failed' = failed
                   /\ Goto("transfer")
  /\ UNCHANGED <<uid, client, source, sizes, chains>>

\* except P2VError: CleanUpTarget(client), whose own P2VError leaves
\* PartitionTargetDisks
PartitionRetryCleanUp ==
  /\ pc = "retry_cleanup"
  /\ \E umountOk \in BOOLEAN :
       LET r == CleanUpCommand(tgtMounted, tgtDir, umountOk) IN
         /\ CleanUpTarget("retry", r)
         /\ IF RunCommandAndWaitRaises(r.status)
              THEN /\ failed' = failed \cup {"PartitionTargetDisks"}
                   /\ ExceptP2VError("Remote command returned nonzero exit status")
              ELSE /\ failed' = failed
                   /\ Goto("chain2")
  /\ UNCHANGED <<uid, client, source, sizes, chains>>

\* the except branch re-raising after its retry
PartitionChainRetry_AlwaysRaise ==
  /\ pc = "chain2"
  /\ \E failAt \in ChainFailPoints(tgtMounted) :
       /\ RunChain(failAt)
       /\ failed' = failed \cup {"PartitionTargetDisks"}
       /\ ExceptP2VError("Remote command returned nonzero exit status")
  /\ UNCHANGED <<uid, client, source, sizes, cleanups>>

\* the retry written as a loop of up to three attempts
PartitionChainRetry_Again ==
  /\ pc = "chain2"
  /\ \E failAt \in ChainFailPoints(tgtMounted) :
       /\ RunChain(failAt)
       /\ IF RunCommandAndWaitRaises(ChainCommand(tgtMounted, tgtDir, failAt).status)
            THEN IF Len(chains) < 2
                   THEN /\ failed' = failed
                        /\ Goto("retry_cleanup")
                   ELSE /\ failed' = failed \cup {"PartitionTargetDisks"}
                        /\ ExceptP2VError("Remote command returned nonzero exit status")
            ELSE /\ failed' = failed
                 /\ Goto("transfer")
  /\ UNCHANGED <<uid, client, source, sizes, cleanups>>

\* the second _RunCommandAndWait(client, " && ".join(other_commands))
PartitionChainRetry ==
  /\ pc = "chain2"
  /\ \E failAt \in ChainFailPoints(tgtMounted) :
       /\ RunChain(failAt)
       /\ IF RunCommandAndWaitRaises(ChainCommand(tgtMounted, tgtDir, failAt).status)
            THEN /\ failed' = failed \cup {"PartitionTargetDisks"}
                 /\ ExceptP2VError("Remote command returned nonzero exit status")
            ELSE /\ failed' = failed
                 /\ Goto("transfer")
  /\ UNCHANGED <<uid, client, source, sizes, cleanups>>

----------------------------------------------------------------------------
(* Transfer, fixes, shutdown *)

\* TransferFiles that prints the error and returns
TransferFiles_NoExit ==
  /\ pc = "transfer"
  /\ \E errcode \in {0, 1} :
       /\ Record("TransferFiles", errcode = 0)
       /\ pc' = "fix"
       /\ printed' = IF errcode # 0
                       THEN printed \cup {"Error using rsync to transfer files"}
                       ELSE printed
       /\ UNCHANGED <<pending, exitKind>>
  /\ UNCHANGED <<uid, client, source, target, sizes>>

\* rsync; sys.exit(1) on a nonzero status
TransferFiles ==
  /\ pc = "transfer"
  /\ \E errcode \in {0, 1} :
       /\ Record("TransferFiles", errcode = 0)
       /\ IF errcode # 0
            THEN SysExit("Error using rsync to transfer files")
            ELSE Goto("fix")
  /\ UNCHANGED <<uid, client, source, target, sizes>>

RunFixScripts ==
  /\ pc = "fix"
  /\ \E status \in {0, 1} :
       /\ Record("RunFixScripts", ~RunCommandAndWaitRaises(status))
       /\ IF RunCommandAndWaitRaises(status)
            THEN ExceptP2VError("Remote command returned nonzero exit status")
            ELSE Goto("shutdown")
  /\ UNCHANGED <<uid, client, source, target, sizes>>

\* "poweroff"; on success the try block ends and the finally clause runs
ShutDownTarget ==
  /\ pc = "shutdown"
  /\ \E status \in {0, 1} :
       /\ Record("ShutDownTarget", ~RunCommandAndWaitRaises(status))
       /\ IF RunCommandAndWaitRaises(status)
            THEN ExceptP2VError("Remote command returned nonzero exit status")
            ELSE Goto("fin_unmount")
  /\ UNCHANGED <<uid, client, source, target, sizes>>

----------------------------------------------------------------------------
(* finally: *)

\* the process ends with the exception that leaves main(), if any
ExitWith(exc) ==
  /\ pc' = "done"
  /\ exitKind' = exc
  /\ pending' = pending

\* if uid == 0: UnmountSourceFilesystems() -- umount SOURCE_MOUNT, and
\* sys.exit(1) on a nonzero status, which leaves the finally clause at once
FinallyUnmount ==
  /\ pc = "fin_unmount"
  /\ IF uid = 0
       THEN \E errcode \in {0, 1} :
              /\ ~srcMounted => errcode # 0
              /\ Record("UnmountSourceFilesystems", errcode = 0)
              /\ IF errcode # 0
                   THEN /\ ExitWith("SystemExit")
                        /\ printed' = printed \cup {"Error unmounting"}
                        /\ UNCHANGED srcMounted
                   ELSE /\ Goto("fin_cleanup")
                        /\ srcMounted' = FALSE
       ELSE /\ Goto("fin_cleanup")
            /\ UNCHANGED <<srcMounted, log, failed>>
  /\ UNCHANGED <<uid, client, srcDir, hasModulesDir, installed, kcheck, target, sizes>>

\* if client: CleanUpTarget(client) -- a P2VError raised here is outside the
\* try and leaves main() uncaught; otherwise the pending exception goes on
FinallyCleanUp ==
  /\ pc = "fin_cleanup"
  /\ IF client
       THEN \E umountOk \in BOOLEAN :
              LET r == CleanUpCommand(tgtMounted, tgtDir, umountOk) IN
                /\ CleanUpTarget("final", r)
                /\ IF RunCommandAndWaitRaises(r.status)
                     THEN /\ failed' = failed \cup {"CleanUpTarget"}
                          /\ ExitWith("P2VError")
                     ELSE /\ failed' = failed
                          /\ ExitWith(pending)
       ELSE /\ ExitWith(pending)
            /\ UNCHANGED <<tgtMounted, tgtDir, cleanups, log, failed>>
  /\ UNCHANGED <<uid, client, source, sizes, chains, printed>>

\* exit status of the process: 0 when main() returns, 1 on sys.exit(1) and
\* on an uncaught exception
ExitStatus == IF exitKind = "none" THEN 0 ELSE 1

----------------------------------------------------------------------------

Init ==
  /\ pc = "start"
  /\ uid \in 0..MaxUid
  /\ client = FALSE
  /\ pending = "none"
  /\ exitKind = "running"
  /\ printed = {}
  /\ srcMounted \in BOOLEAN
  /\ srcDir \in BOOLEAN
  /\ srcMounted => srcDir
  /\ tgtMounted \in BOOLEAN
  /\ tgtDir \in BOOLEAN
  /\ tgtMounted => tgtDir
  /\ hasModulesDir \in BOOLEAN
  /\ installed \in SUBSET (Releases \ {""})
  /\ installed # {} => hasModulesDir
  /\ total_megs = -1
  /\ swap_megs = -1
  /\ swap_kb_sum = -1
  /\ swap_raw = -1
  /\ blockdev_out = <<>>
  /\ swap_out = <<>>
  /\ kcheck = [status |-> 0, kernel |-> "", result |-> "none"]
  /\ log = <<>>
  /\ failed = {}
  /\ cleanups = <<>>
  /\ chains = <<>>

Next ==
  \/ CheckPrivilege
  \/ LoadSSHKey
  \/ EstablishConnection
  \/ MountSourceFilesystems
  \/ VerifyKernelMatches
  \/ GetDiskSize
  \/ PartitionSfdisk
  \/ PartitionChain
  \/ PartitionRetryCleanUp
  \/ PartitionChainRetry
  \/ TransferFiles
  \/ RunFixScripts
  \/ ShutDownTarget
  \/ FinallyUnmount
  \/ FinallyCleanUp

Spec == Init /\ [][Next]_vars

\* every local and remote command returns an exit status (subprocess.call
\* and recv_exit_status block until it does), so main() always takes its
\* next step
FairSpec == Spec /\ WF_vars(Next)

----------------------------------------------------------------------------
(* GetDiskSize on recorded command outputs: main() has reached the call    *)
(* (root, session established, source mounted, kernel found) and the two   *)
(* command outputs are drawn at the start and kept in the state.           *)

SizerInit ==
  /\ pc = "size"
  /\ uid = 0
  /\ client = TRUE
  /\ pending = "none"
  /\ exitKind = "running"
  /\ printed = {}
  /\ srcMounted = TRUE
  /\ srcDir = TRUE
  /\ tgtMounted = FALSE
  /\ tgtDir = FALSE
  /\ hasModulesDir = TRUE
  /\ installed = {"3.2.0-4-amd64"}
  /\ kcheck = [status |-> 0, kernel |-> "3.2.0-4-amd64", result |-> "true"]
  /\ total_megs = -1
  /\ swap_megs = -1
  /\ swap_kb_sum = -1
  /\ swap_raw = -1
  /\ blockdev_out \in BlockdevOutputs
  /\ swap_out \in SwapReports
  /\ log = <<"getuid", "LoadSSHKey", "EstablishConnection",
             "MountSourceFilesystems", "VerifyKernelMatches">>
  /\ failed = {}
  /\ cleanups = <<>>
  /\ chains = <<>>

SizerGetDiskSize == GetDiskSizeOn(blockdev_out, swap_out)

SizerNext == SizerGetDiskSize

SizerSpec == SizerInit /\ [][SizerNext]_vars

----------------------------------------------------------------------------
(* Properties *)

InLog(call) == \E i \in DOMAIN log : log[i] = call

Succeeded(call) == InLog(call) /\ call \notin failed

FinalCleanUpInvoked == \E i \in DOMAIN cleanups : cleanups[i].ctx = "final"

RetryCleanUpInvoked == \E i \in DOMAIN cleanups : cleanups[i].ctx = "retry"

NoCleanUpCommandFailed ==
  /\ "UnmountSourceFilesystems" \notin failed
  /\ \A i \in DOMAIN cleanups : cleanups[i].status = 0

\* C1: once EstablishConnection has returned a session, CleanUpTarget is
\* invoked on it in the terminal cleanup before the process exits, whichever
\* step failed or succeeded, the terminal unmount of the source included.
C1_CleanUpOnEverySession ==
  (pc = "done" /\ client) => FinalCleanUpInvoked

\* C2 as stated: at the exit of a failed run in which the privilege check
\* passed and no unmount or target-cleanup command reported failure, nothing
\* is mounted at SOURCE_MOUNT or TARGET_MOUNT and TARGET_MOUNT does not exist.
C2_FailedRunLeavesClean ==
  (pc = "done" /\ ExitStatus = 1 /\ uid = 0 /\ NoCleanUpCommandFailed)
    => (~srcMounted /\ ~tgtMounted /\ ~tgtDir)

\* C2 amended: the same, for the failed runs in which a session was
\* established (without a session the run has no means to touch the target).
C2_FailedRunWithSessionLeavesClean ==
  (pc = "done" /\ ExitStatus = 1 /\ uid = 0 /\ client /\ NoCleanUpCommandFailed)
    => (~srcMounted /\ ~tgtMounted /\ ~tgtDir)

C2_Witness ==
  /\ pc = "done" /\ ExitStatus = 1 /\ uid = 0 /\ client
  /\ NoCleanUpCommandFailed
  /\ FinalCleanUpInvoked
  /\ Succeeded("UnmountSourceFilesystems")
  /\ "TransferFiles" \in failed

\* C3: when the first execution of the format/mount chain fails, CleanUpTarget
\* is invoked and the chain is executed exactly one more time; when that
\* second execution fails too, the run fails with the remote-command error.
C3_ExactlyOneRetry ==
  (pc = "done" /\ Len(chains) >= 1 /\ chains[1].status # 0)
    => /\ RetryCleanUpInvoked
       /\ Len(chains) = 2
       /\ chains[2].status # 0 =>
            ("PartitionTargetDisks" \in failed /\ ExitStatus = 1)

\* C4: CleanUpTarget invoked on a clean target (nothing mounted at
\* TARGET_MOUNT, no TARGET_MOUNT directory) raises no error.
C4_CleanUpIdempotent ==
  \A i \in DOMAIN cleanups :
    (~cleanups[i].preMounted /\ ~cleanups[i].preDir)
      => ~RunCommandAndWaitRaises(cleanups[i].status)

\* C5: UnmountSourceFilesystems is invoked in the terminal cleanup if and
\* only if MountSourceFilesystems succeeded earlier in the run.
C5_UnmountIffMounted ==
  pc = "done" =>
    (InLog("UnmountSourceFilesystems") <=> Succeeded("MountSourceFilesystems"))

\* C6: when VerifyKernelMatches returns false the run executes none of
\* GetDiskSize, PartitionTargetDisks, TransferFiles, RunFixScripts and
\* ShutDownTarget, unmounts the source, invokes CleanUpTarget and exits 1.
C6_KernelMismatch ==
  (pc = "done" /\ "VerifyKernelMatches" \in failed)
    => /\ \A c \in {"GetDiskSize", "PartitionTargetDisks", "TransferFiles",
                    "RunFixScripts", "ShutDownTarget"} : ~InLog(c)
       /\ InLog("UnmountSourceFilesystems")
       /\ FinalCleanUpInvoked
       /\ ExitStatus = 1

PipelineOrder ==
  <<"getuid", "LoadSSHKey", "EstablishConnection", "MountSourceFilesystems",
    "VerifyKernelMatches", "GetDiskSize", "PartitionTargetDisks",
    "TransferFiles", "RunFixScripts", "ShutDownTarget">>

PipelineSteps == {PipelineOrder[i] : i \in DOMAIN PipelineOrder}

IsPipelineStep(call) == call \in PipelineSteps

StepsRun == SelectSeq(log, IsPipelineStep)

\* C7: the pipeline steps run in the order privilege check, key load,
\* connect, mount, kernel check, sizing, partitioning, transfer, fix scripts,
\* shutdown; a step starts only after all earlier ones succeeded, and after
\* a step fails only the terminal cleanup follows.
C7_PipelineOrder ==
  /\ Len(StepsRun) <= Len(PipelineOrder)
  /\ \A i \in DOMAIN StepsRun :
       /\ StepsRun[i] = PipelineOrder[i]
       /\ StepsRun[i] \in failed => i = Len(StepsRun)
  /\ (failed \cap PipelineSteps # {})
       => pc \in {"fin_unmount", "fin_cleanup", "done"}

C7_Witness ==
  /\ pc = "done"
  /\ "RunFixScripts" \in failed
  /\ Len(StepsRun) = 9
  /\ Len(chains) = 2

\* C8: every failure of a step reaches the top level as a classified error
\* that is printed and ends the process with sys.exit(1); none escapes as an
\* unhandled exception and no run with a failed step exits with status 0.
C8_FailuresClassified ==
  (pc = "done" /\ failed # {})
    => (exitKind = "SystemExit" /\ printed # {} /\ ExitStatus = 1)

\* C9: when every pipeline step up to the shutdown succeeds, the terminal
\* cleanup unmounts the source and invokes CleanUpTarget, and the process
\* exits with status 0.
C9_SuccessfulRun ==
  (pc = "done" /\ Succeeded("ShutDownTarget"))
    => /\ InLog("UnmountSourceFilesystems")
       /\ FinalCleanUpInvoked
       /\ ExitStatus = 0

\* C10: when the process is not running as root, the run exits with status 1
\* without a key load, connection, mount, unmount or remote command, and the
\* terminal cleanup performs neither an unmount nor a target cleanup.
C10_NotRoot ==
  uid # 0 =>
    /\ \A i \in DOMAIN log : log[i] = "getuid"
    /\ ~client
    /\ cleanups = <<>> /\ chains = <<>>
    /\ pc \in {"start", "fin_unmount", "fin_cleanup", "done"}
    /\ pc = "done" => ExitStatus = 1

C10_Witness ==
  /\ uid # 0 /\ pc = "done" /\ log = <<"getuid">>
  /\ "Must be run as root" \in printed

----------------------------------------------------------------------------
(* Properties of GetDiskSize, under SizerSpec *)

\* the data lines of the recorded report whose third field is a number
NumericLines ==
  {i \in DOMAIN DataLines(swap_out) :
     DataLines(swap_out)[i].nf >= 3 /\ DataLines(swap_out)[i].kb # NotANumber}

RECURSIVE SumOver(_, _)
SumOver(f, S) ==
  IF S = {} THEN 0
  ELSE LET i == CHOOSE j \in S : TRUE IN f[i] + SumOver(f, S \ {i})

\* C11: the swap size GetDiskSize returns is between 0 and floor(total / 10),
\* is at most the measured swap, and is one of the two (their minimum).
C11_SwapCapped ==
  Succeeded("GetDiskSize") =>
    /\ total_megs >= 0 /\ swap_raw >= 0
    /\ 0 <= swap_megs
    /\ swap_megs <= total_megs \div 10
    /\ swap_megs <= swap_raw
    /\ swap_megs = swap_raw \/ swap_megs = total_megs \div 10

C11_Witness ==
  /\ Succeeded("GetDiskSize")
  /\ swap_raw > total_megs \div 10
  /\ swap_megs = total_megs \div 10
  /\ swap_megs > 0

\* C17 as stated: the swap total before the cap is the sum of the kilobyte
\* fields of all data lines, converted to megabytes by one integer division.
C17_SumThenConvert ==
  Succeeded("GetDiskSize") => swap_raw = swap_kb_sum \div KB

\* C17 amended: the swap total before the cap is the sum, over the data lines
\* with a numeric third field, of that field divided by 1024 with the
\* remainder dropped line by line.
C17_ConvertThenSum ==
  Succeeded("GetDiskSize") =>
    /\ swap_raw =
         SumOver([i \in NumericLines |-> DataLines(swap_out)[i].kb \div KB],
                 NumericLines)
    /\ swap_kb_sum =
         SumOver([i \in NumericLines |-> DataLines(swap_out)[i].kb],
                 NumericLines)

C17_Witness ==
  /\ Succeeded("GetDiskSize")
  /\ Cardinality(NumericLines) = 2
  /\ swap_raw < swap_kb_sum \div KB

\* C18: a data line that is malformed (non-numeric third field, blank, or
\* fewer than three fields) is skipped: sizing completes without raising.
C18_MalformedSkipped ==
  (InLog("GetDiskSize") /\ ParseBlockdev(blockdev_out).bound)
    => "GetDiskSize" \notin failed

----------------------------------------------------------------------------
(* Properties of the session, the kernel check and the partitioning *)

IsClose(call) == call = "client.close"

IsConnect(call) == call = "EstablishConnection"

\* C12: at most one session is opened in a run, and an established session
\* is closed exactly once before the process exits.
C12_SessionClosedOnce ==
  /\ Len(SelectSeq(log, IsConnect)) <= 1
  /\ (pc = "done" /\ client) => Len(SelectSeq(log, IsClose)) = 1

\* C13: when the first chain fails, the CleanUpTarget that follows succeeds
\* and the second chain succeeds, PartitionTargetDisks returns normally and
\* the run goes on to TransferFiles on a mounted target.
C13_RetrySuccessProceeds ==
  (/\ Len(chains) = 2 /\ chains[1].status # 0 /\ chains[2].status = 0
   /\ RetryCleanUpInvoked /\ cleanups[1].status = 0)
    => /\ "PartitionTargetDisks" \notin failed
       /\ pc = "transfer" \/ InLog("TransferFiles")
       /\ pc = "transfer" => (tgtMounted /\ pending = "none")

C13_Witness ==
  /\ pc = "fix" /\ Succeeded("TransferFiles")
  /\ Len(chains) = 2 /\ chains[1].status # 0 /\ chains[2].status = 0
  /\ cleanups[1].ctx = "retry" /\ cleanups[1].status = 0

\* C14: VerifyKernelMatches returns true exactly when a directory named as
\* the release string (the empty string included) exists under
\* SOURCE_MOUNT/lib/modules, and false, without raising, otherwise.
C14_KernelCheckExact ==
  kcheck.result # "none" =>
    /\ kcheck.result \in {"true", "false"}
    /\ kcheck.result = "true" <=> kcheck.kernel \in installed

\* C15 as stated: a failure of the sfdisk command is followed by
\* CleanUpTarget and one retry, and only a second failure fails the run.
C15_SfdiskRetried ==
  (pc = "done" /\ "sfdisk" \in failed) => RetryCleanUpInvoked

\* C15 amended: a failure of the sfdisk command is fatal at once: no
\* CleanUpTarget retry and no format/mount chain follow it, the P2VError
\* leaves PartitionTargetDisks and the run exits with status 1.
C15_SfdiskFatal ==
  "sfdisk" \in failed =>
    /\ ~RetryCleanUpInvoked
    /\ chains = <<>>
    /\ "PartitionTargetDisks" \in failed
    /\ pc \in {"fin_unmount", "fin_cleanup", "done"}
    /\ pc = "done" => ExitStatus = 1

C15_Witness ==
  /\ pc = "done" /\ "sfdisk" \in failed
  /\ FinalCleanUpInvoked

\* C16: when "uname -r" exits with a nonzero status VerifyKernelMatches
\* raises instead of returning a boolean, and the run never reaches
\* GetDiskSize or PartitionTargetDisks.
C16_UnameFailureRaises ==
  (kcheck.result # "none" /\ kcheck.status # 0)
    => /\ kcheck.result = "raise"
       /\ ~InLog("GetDiskSize")
       /\ ~InLog("PartitionTargetDisks")

\* C19: TransferFiles starts only with the target's root partition mounted
\* at TARGET_MOUNT: the latest chain execution succeeded and no CleanUpTarget
\* ran after it.
C19_TransferOnMountedTarget ==
  pc = "transfer" =>
    /\ tgtMounted /\ tgtDir
    /\ chains # <<>> /\ chains[Len(chains)].status = 0
    /\ log[Len(log)] = "chain"

C19_Witness ==
  /\ pc = "transfer"
  /\ Len(chains) = 2 /\ chains[1].status # 0
  /\ cleanups[1].preMounted

\* C20: every run reaches process exit, and no run executes the chain or
\* CleanUpTarget more than twice.
C20_Terminates ==
  /\ <>(pc = "done")
  /\ [](Len(chains) <= 2 /\ Len(cleanups) <= 2)

C20_Witness ==
  /\ pc = "done"
  /\ Len(chains) = 2 /\ Len(cleanups) = 2

====
